---- MODULE Spec2Model ----
(***************************************************************************)
(* A model of github.com/FrauElster/proxy: the stealth transport           *)
(* (stealthTransport.go), the compression codec bridge (compression.go)    *)
(* and the proxy core (proxy.go: NewProxy, forwardRequest, buildRequest).  *)
(*                                                                         *)
(* Strings are sequences of atoms (chunks of characters), so that          *)
(* strings.HasPrefix / TrimPrefix / Contains are computed, not assumed:    *)
(* "/github/foo" is <<"/", "github", "/", "foo">>, "x-gzip" is             *)
(* <<"x-", "gzip">>, and the empty string is <<>>.                         *)
(***************************************************************************)
EXTENDS Integers, Sequences, FiniteSets, TLC

\* ------------------------------------------------------------------ bounds

\* Largest clock reading (ticks of the wall clock).
MaxTime == 4
\* RoundTrip calls a caller makes when it is the transport's only caller.
MaxCalls == 2
\* RoundTrip calls each caller makes when callers share the transport.
MaxSharedCalls == 1
\* Headers a caller pre-sets on its request.
MaxPreset == 1
\* Targets handed to NewProxy.
MaxTargets == 2
MaxRecorded == 2
MaxActive == 1
MaxBody == 3

\* The zero time.Time of lastRequest lies this many ticks before the clock's 0.
LongAgo == 1000

\* ----------------------------------------------------------------- strings

EmptyStr == <<>>

HasPrefix(s, prefix) ==
    /\ Len(prefix) <= Len(s)
    /\ SubSeq(s, 1, Len(prefix)) = prefix

TrimPrefix(s, prefix) ==
    IF HasPrefix(s, prefix) THEN SubSeq(s, Len(prefix) + 1, Len(s)) ELSE s

Contains(s, substr) ==
    \E i \in 0..(Len(s) - Len(substr)) : SubSeq(s, i + 1, i + Len(substr)) = substr

\* ----------------------------------------------------------------- headers
\* http.Header: a map from name to a list of values.  A name with no values
\* is absent; << <<>> >> is a header present with the empty string as value.

NoValues == <<>>

\* Header.Get: the first value of the name, "" when there is none.
Get(h, key) ==
    IF key \in DOMAIN h /\ h[key] # NoValues THEN h[key][1] ELSE EmptyStr

\* Header.Set: replaces every value of the name by the one given.
Set(h, key, value) == [k \in DOMAIN h \cup {key} |-> IF k = key THEN <<value>> ELSE h[k]]

\* Header.Add: appends the value to the name's values.
Add(h, key, value) ==
    [k \in DOMAIN h \cup {key} |->
        IF k = key
        THEN (IF key \in DOMAIN h THEN h[key] ELSE NoValues) \o <<value>>
        ELSE h[k]]

\* Header.Del
Del(h, key) == [k \in DOMAIN h |-> IF k = key THEN NoValues ELSE h[k]]

\* ------------------------------------------------------------ codec bridge
\* compression.go.  The codecs themselves (compress/gzip, compress/flate,
\* andybalholm/brotli) are libraries: each is modelled as a framing that puts
\* the codec's magic in front of the data, and whose reader rejects data that
\* does not start with it.

Gzip == <<"gzip">>
Deflate == <<"deflate">>
Brotli == <<"br">>
NoCompression == EmptyStr

compressionFromString(encoding) ==
    IF Contains(encoding, Gzip) THEN Gzip
    ELSE IF Contains(encoding, Deflate) THEN Deflate
    ELSE IF Contains(encoding, Brotli) THEN Brotli
    ELSE NoCompression

\* The first bytes a codec's writer emits and its reader insists on.  A body is
\* a sequence of records: this one, a chunk of text, or an HTML element.
Magic(codec) == [magic |-> codec]

\* gzip.NewWriter / flate.NewWriter / brotli.NewWriter, Write, Close
CodecWrite(codec, data) == <<Magic(codec)>> \o data

\* gzip.NewReader / flate.NewReader / brotli.NewReader read to the end
CodecReadable(codec, data) == data # <<>> /\ data[1] = Magic(codec)

CodecRead(codec, data) == Tail(data)

\* A mutant of compressBody: deflate bodies are written by the gzip writer.
compressBodyDeflateAsGzip(body, encoding) ==
    IF encoding \in {Gzip, Deflate}
    THEN [err |-> FALSE, body |-> CodecWrite(Gzip, body)]
    ELSE IF encoding = Brotli THEN [err |-> FALSE, body |-> CodecWrite(Brotli, body)]
    ELSE [err |-> TRUE, body |-> <<>>]

\* compressBody(body, encoding): the switch compares the whole string.
compressBody(body, encoding) ==
    IF encoding \in {Gzip, Deflate, Brotli}
    THEN [err |-> FALSE, body |-> CodecWrite(encoding, body)]
    ELSE [err |-> TRUE, body |-> <<>>]

\* decompressResponse(res): res is replaced in place; err tells the failure.
decompressResponse(res) ==
    LET contentEncoding == Get(res.Header, "Content-Encoding")
        encoding == compressionFromString(contentEncoding)
    IN  IF contentEncoding = EmptyStr THEN [err |-> FALSE, res |-> res]
        ELSE IF encoding = NoCompression THEN [err |-> TRUE, res |-> res]
        ELSE IF ~CodecReadable(encoding, res.Body) THEN [err |-> TRUE, res |-> res]
        ELSE [err |-> FALSE,
              res |-> [res EXCEPT !.Body = CodecRead(encoding, res.Body),
                                  !.Header = Del(res.Header, "Content-Encoding"),
                                  !.ContentLength = Len(CodecRead(encoding, res.Body))]]

\* --------------------------------------------------------------- variables

VARIABLES
    \* stealthTransport (stealthTransport.go:13-36)
    userAgents, minDelay, maxDelay, lastRequest,
    socks5Proxy, socks5Initialized, compression,
    \* the Dial field of the underlying *http.Transport: "nil" or "socks5"
    Dial,
    \* the callers of RoundTrip: the set of them, where each one stands in
    \* RoundTrip, its request's header, RoundTrip's locals, what RoundTrip
    \* returned last, and how many calls it has made
    callers, pc, req, req0, hadCompression, wake, raw, result, ncalls,
    \* the wall clock, the dispatches the underlying transport has begun, and
    \* the SOCKS5 dialers constructed and installed so far
    now, dispatched, installs,
    \* what the upstream behind the underlying transport may answer in this
    \* run, and the number of calls each caller makes in it
    upstream, budget,
    \* the proxy (proxy.go): NewProxy's arguments and result, and the last
    \* exchange a handler completed
    given, proxy, exchange,
    \* the stat server's targetRecorders (stats/server.go:24), and the Target
    \* the caller's program holds (targetOne of the README)
    stats, targetOne,
    \* the goroutine running ListenAndServe (where it stands, its listener's
    \* address, what it returned), p.server, the call of Shutdown, and what the
    \* program's calls of Addr returned
    serving, server, shutdown, seen,
    \* a body on its way through compressBody and decompressResponse
    trip,
    \* the handler goroutines that are inside copyBody's link rewriting
    handlers

tvars == <<userAgents, minDelay, maxDelay, lastRequest, socks5Proxy,
           socks5Initialized, compression, Dial, callers, pc, req, req0,
           hadCompression, wake, raw, result, ncalls, now, dispatched, installs,
           upstream, budget>>
lvars == <<serving, server, shutdown, seen>>
pvars == <<given, proxy, exchange, stats, targetOne, lvars, trip, handlers>>
vars == <<tvars, pvars>>

\* -------------------------------------------------------- stealth transport

AcceptEncoding == "Accept-Encoding"
DefaultedNames ==
    {"User-Agent", "Accept-Language", "Accept", "Connection", "Cache-Control",
     "Pragma", "DNT"}
RequestHeaderNames == DefaultedNames \cup {AcceptEncoding}

\* The canned values of RoundTrip's basic headers (stealthTransport.go:93-98).
Canned(key) ==
    CASE key = "Accept-Language" -> <<"de-DE,de;q=0.9,en-US;q=0.8,en;q=0.7">>
      [] key = "Accept" -> <<"*/*">>
      [] key = "Connection" -> <<"keep-alive">>
      [] key = "Cache-Control" -> <<"no-cache">>
      [] key = "Pragma" -> <<"no-cache">>
      [] key = "DNT" -> <<"1">>

AdvertisedEncodings == <<"gzip", ", ", "deflate", ", ", "br">>

\* A mutant of addHeaderIfNotExists: the header is set whether or not it exists.
addHeaderAlways(h, key, value) == Set(h, key, value)

addHeaderIfNotExists(h, key, value) ==
    IF Get(h, key) = EmptyStr THEN Set(h, key, value) ELSE h

\* stealthTransport.go:86-90: i is rand.Intn(len(t.userAgents)) + 1.
setUserAgent(h, agents, i) ==
    IF Len(agents) > 0 THEN addHeaderIfNotExists(h, "User-Agent", agents[i]) ELSE h

\* stealthTransport.go:93-98
setBasicHeaders(h) ==
    LET h1 == addHeaderIfNotExists(h, "Accept-Language", Canned("Accept-Language"))
        h2 == addHeaderIfNotExists(h1, "Accept", Canned("Accept"))
        h3 == addHeaderIfNotExists(h2, "Connection", Canned("Connection"))
        h4 == addHeaderIfNotExists(h3, "Cache-Control", Canned("Cache-Control"))
        h5 == addHeaderIfNotExists(h4, "Pragma", Canned("Pragma"))
    IN  addHeaderIfNotExists(h5, "DNT", Canned("DNT"))

\* stealthTransport.go:101
HadCompression(h) == Get(h, AcceptEncoding) # EmptyStr

\* stealthTransport.go:102-105
acceptCompression(h, enabled) ==
    IF enabled /\ ~HadCompression(h) THEN Set(h, AcceptEncoding, AdvertisedEncodings) ELSE h

\* A mutant of ShouldDecompress: the caller's own Accept-Encoding is ignored.
ShouldDecompressAlways(enabled, had, res) ==
    enabled /\ Get(res.Header, "Content-Encoding") # EmptyStr

\* stealthTransport.go:135: whether RoundTrip decompresses the response.
ShouldDecompress(enabled, had, res) ==
    enabled /\ ~had /\ Get(res.Header, "Content-Encoding") # EmptyStr

\* time.Since(t)
Since(t) == now - t

NoResponse == [StatusCode |-> 0, Header |-> <<>>, Body |-> <<>>, ContentLength |-> 0]
NoResult == [kind |-> "none", res |-> NoResponse]

Crashed == \E c \in callers : pc[c] = "panic"

\* RoundTrip returns to its caller.
Return(c, r) ==
    /\ pc' = [pc EXCEPT ![c] = "idle"]
    /\ result' = [result EXCEPT ![c] = r]
    /\ ncalls' = [ncalls EXCEPT ![c] = @ + 1]

AgentIndexes == IF Len(userAgents) = 0 THEN {0} ELSE 1..Len(userAgents)

\* The transport's options, fixed once NewStealthTransport has returned.
options == <<userAgents, minDelay, maxDelay, socks5Proxy, compression, callers,
             upstream, budget>>

\* stealthTransport.go:85-105: a caller enters RoundTrip with its request; the
\* headers are defaulted and Accept-Encoding is advertised.
RTCall(c) ==
    /\ ~Crashed
    /\ pc[c] = "idle"
    /\ ncalls[c] < budget
    /\ \E i \in AgentIndexes :
        LET h == setBasicHeaders(setUserAgent(req[c], userAgents, i))
        IN  /\ hadCompression' = [hadCompression EXCEPT ![c] = HadCompression(h)]
            /\ req' = [req EXCEPT ![c] = acceptCompression(h, compression)]
    /\ req0' = [req0 EXCEPT ![c] = req[c]]
    /\ pc' = [pc EXCEPT ![c] = "socks"]
    /\ result' = [result EXCEPT ![c] = NoResult]
    /\ raw' = [raw EXCEPT ![c] = NoResponse]
    /\ UNCHANGED <<options, lastRequest, socks5Initialized, Dial, wake, ncalls,
                   now, dispatched, installs, pvars>>

\* stealthTransport.go:108: the test of the initialized flag.
RTSocksCheck(c) ==
    /\ ~Crashed
    /\ pc[c] = "socks"
    /\ pc' = [pc EXCEPT ![c] =
                IF socks5Proxy # EmptyStr /\ ~socks5Initialized THEN "construct" ELSE "delay"]
    /\ UNCHANGED <<options, lastRequest, socks5Initialized, Dial, req, req0,
                   hadCompression, wake, raw, result, ncalls, now, dispatched,
                   installs, pvars>>

\* A mutant of RTSocksConstruct: the error of goProxy.SOCKS5 is dropped and
\* RoundTrip goes on without a dialer.
RTSocksConstructIgnoringError(c) ==
    /\ ~Crashed
    /\ pc[c] = "construct"
    /\ \E ok \in BOOLEAN : pc' = [pc EXCEPT ![c] = IF ok THEN "install" ELSE "delay"]
    /\ UNCHANGED <<options, lastRequest, socks5Initialized, Dial, req, req0,
                   hadCompression, wake, raw, result, ncalls, now, dispatched,
                   installs, pvars>>

\* A mutant of RTSocksConstruct: the initialized flag is set before the dialer
\* is built, so a failed construction is never tried again.
RTSocksConstructFlagFirst(c) ==
    /\ ~Crashed
    /\ pc[c] = "construct"
    /\ socks5Initialized' = TRUE
    /\ \E ok \in BOOLEAN :
        IF ok
        THEN /\ pc' = [pc EXCEPT ![c] = "install"]
             /\ UNCHANGED <<result, ncalls>>
        ELSE Return(c, [kind |-> "socks5 error", res |-> NoResponse])
    /\ UNCHANGED <<options, lastRequest, Dial, req, req0, hadCompression, wake,
                   raw, now, dispatched, installs, pvars>>

\* stealthTransport.go:109-112: goProxy.SOCKS5 builds the dialer, or fails and
\* RoundTrip returns the error.
RTSocksConstruct(c) ==
    /\ ~Crashed
    /\ pc[c] = "construct"
    /\ \E ok \in BOOLEAN :
        IF ok
        THEN /\ pc' = [pc EXCEPT ![c] = "install"]
             /\ UNCHANGED <<result, ncalls>>
        ELSE Return(c, [kind |-> "socks5 error", res |-> NoResponse])
    /\ UNCHANGED <<options, lastRequest, socks5Initialized, Dial, req, req0,
                   hadCompression, wake, raw, now, dispatched, installs, pvars>>

\* stealthTransport.go:114-115: the dialer becomes the transport's Dial.
RTSocksInstall(c) ==
    /\ ~Crashed
    /\ pc[c] = "install"
    /\ Dial' = "socks5"
    /\ installs' = installs + 1
    /\ pc' = [pc EXCEPT ![c] = "setflag"]
    /\ UNCHANGED <<options, lastRequest, socks5Initialized, req, req0,
                   hadCompression, wake, raw, result, ncalls, now, dispatched, pvars>>

\* stealthTransport.go:116
RTSocksSetFlag(c) ==
    /\ ~Crashed
    /\ pc[c] = "setflag"
    /\ socks5Initialized' = TRUE
    /\ pc' = [pc EXCEPT ![c] = "delay"]
    /\ UNCHANGED <<options, lastRequest, Dial, req, req0, hadCompression, wake,
                   raw, result, ncalls, now, dispatched, installs, pvars>>

\* A mutant of RTDelay: minDelay is not added to the number drawn.
RTDelayWithoutMin(c) ==
    /\ ~Crashed
    /\ pc[c] = "delay"
    /\ IF minDelay > 0 /\ maxDelay > 0
       THEN IF maxDelay - minDelay <= 0
            THEN /\ pc' = [pc EXCEPT ![c] = "panic"]
                 /\ UNCHANGED wake
            ELSE \E wantDelay \in 0..(maxDelay - minDelay - 1) :
                   LET actualDelay == Since(lastRequest)
                   IN  IF actualDelay < wantDelay
                       THEN /\ pc' = [pc EXCEPT ![c] = "sleep"]
                            /\ wake' = [wake EXCEPT ![c] = now + (wantDelay - actualDelay)]
                       ELSE /\ pc' = [pc EXCEPT ![c] = "dispatch"]
                            /\ UNCHANGED wake
       ELSE /\ pc' = [pc EXCEPT ![c] = "dispatch"]
            /\ UNCHANGED wake
    /\ UNCHANGED <<options, lastRequest, socks5Initialized, Dial, req, req0,
                   hadCompression, raw, result, ncalls, now, dispatched, installs,
                   pvars>>

\* stealthTransport.go:120-126: rand.Int63n(n) panics unless n > 0; otherwise
\* wantDelay is drawn from [minDelay, maxDelay) and the caller sleeps for what
\* is left of it.
RTDelay(c) ==
    /\ ~Crashed
    /\ pc[c] = "delay"
    /\ IF minDelay > 0 /\ maxDelay > 0
       THEN IF maxDelay - minDelay <= 0
            THEN /\ pc' = [pc EXCEPT ![c] = "panic"]
                 /\ UNCHANGED wake
            ELSE \E wantDelay \in minDelay..(maxDelay - 1) :
                   LET actualDelay == Since(lastRequest)
                   IN  IF actualDelay < wantDelay
                       THEN /\ pc' = [pc EXCEPT ![c] = "sleep"]
                            /\ wake' = [wake EXCEPT ![c] = now + (wantDelay - actualDelay)]
                       ELSE /\ pc' = [pc EXCEPT ![c] = "dispatch"]
                            /\ UNCHANGED wake
       ELSE /\ pc' = [pc EXCEPT ![c] = "dispatch"]
            /\ UNCHANGED wake
    /\ UNCHANGED <<options, lastRequest, socks5Initialized, Dial, req, req0,
                   hadCompression, raw, result, ncalls, now, dispatched, installs,
                   pvars>>

\* time.Sleep returns once the duration has passed.
RTWake(c) ==
    /\ ~Crashed
    /\ pc[c] = "sleep"
    /\ now >= wake[c]
    /\ pc' = [pc EXCEPT ![c] = "dispatch"]
    /\ wake' = [wake EXCEPT ![c] = 0]
    /\ UNCHANGED <<options, lastRequest, socks5Initialized, Dial, req, req0,
                   hadCompression, raw, result, ncalls, now, dispatched,
                   installs, pvars>>

\* What the log of dispatches keeps of one dispatch.
Dispatch(c) ==
    [at |-> now, dial |-> Dial, acceptEncoding |-> Get(req[c], AcceptEncoding)]

\* stealthTransport.go:128-129: the time is stamped and the underlying
\* transport's RoundTrip begins.
RTDispatch(c) ==
    /\ ~Crashed
    /\ pc[c] = "dispatch"
    /\ lastRequest' = now
    /\ dispatched' = Append(dispatched, Dispatch(c))
    /\ pc' = [pc EXCEPT ![c] = "inflight"]
    /\ UNCHANGED <<options, socks5Initialized, Dial, req, req0, hadCompression,
                   wake, raw, result, ncalls, now, installs, pvars>>

\* What the underlying transport's RoundTrip may return: an error, or a
\* response of the upstream server.  A body sent under a Content-Encoding the
\* codec bridge knows is that codec's output; BrokenResponse is not.
Text(t) == [text |-> t]
PlainBodies == {<<>>, <<Text("data")>>}
ContentEncodings == {EmptyStr, Gzip, Deflate, Brotli, <<"x-", "gzip">>, <<"zstd">>}

UpstreamResponse(status, contentEncoding, contentType, plain) ==
    LET codec == compressionFromString(contentEncoding)
        body == IF codec = NoCompression THEN plain ELSE CodecWrite(codec, plain)
    IN  [StatusCode |-> status,
         Header |-> [k \in {"Content-Encoding", "Content-Type"} |->
                       IF k = "Content-Encoding"
                       THEN (IF contentEncoding = EmptyStr THEN NoValues
                             ELSE <<contentEncoding>>)
                       ELSE <<contentType>>],
         Body |-> body,
         ContentLength |-> Len(body)]

BrokenResponse ==
    [UpstreamResponse(200, Gzip, <<"text/plain">>, <<>>) EXCEPT !.Body = <<Text("data")>>,
                                                                 !.ContentLength = 1]

TransportResponses ==
    {UpstreamResponse(200, e, <<"text/plain">>, b) : e \in ContentEncodings, b \in PlainBodies}
        \cup {BrokenResponse}

TransportOutcomes ==
    {[err |-> TRUE, res |-> NoResponse]} \cup {[err |-> FALSE, res |-> r] : r \in TransportResponses}

\* An upstream that fails or answers 200 with a plain body.
PlainOutcomes ==
    {[err |-> TRUE, res |-> NoResponse],
     [err |-> FALSE, res |-> UpstreamResponse(200, EmptyStr, <<"text/plain">>, <<Text("data")>>)]}

\* stealthTransport.go:130-143: what RoundTrip returns for the underlying
\* transport's outcome.
finish(enabled, had, out) ==
    IF out.err THEN [kind |-> "transport error", res |-> NoResponse]
    ELSE IF ShouldDecompress(enabled, had, out.res)
         THEN LET d == decompressResponse(out.res)
              IN  IF d.err THEN [kind |-> "decompress error", res |-> NoResponse]
                  ELSE [kind |-> "ok", res |-> d.res]
         ELSE [kind |-> "ok", res |-> out.res]

\* stealthTransport.go:129-143: the underlying RoundTrip returns and RoundTrip
\* returns to its caller.
RTResponse(c) ==
    /\ ~Crashed
    /\ pc[c] = "inflight"
    /\ \E out \in upstream :
        /\ raw' = [raw EXCEPT ![c] = out.res]
        /\ Return(c, finish(compression, hadCompression[c], out))
    /\ UNCHANGED <<options, lastRequest, socks5Initialized, Dial, req, req0,
                   hadCompression, wake, now, dispatched, installs, pvars>>

\* The wall clock advances.
Tick ==
    /\ now < MaxTime
    /\ now' = now + 1
    /\ UNCHANGED <<options, lastRequest, socks5Initialized, Dial, pc, req, req0,
                   hadCompression, wake, raw, result, ncalls, dispatched, installs,
                   pvars>>

\* ------------------------------------------------------------------- proxy

\* url.URL, and the parts of url.Parse and URL.String the proxy relies on.
URL(scheme, host, path, query) ==
    [Scheme |-> scheme, Host |-> host, Path |-> path, RawQuery |-> query]

\* The place of the first atom of s that is in set; Len(s) + 1 when none is.
IndexAny(s, set) ==
    LET hits == {i \in 1..Len(s) : s[i] \in set}
    IN  IF hits = {} THEN Len(s) + 1 ELSE CHOOSE i \in hits : \A j \in hits : i <= j

\* url.Parse: "://host" has no scheme and is an error; "scheme://host/path?q"
\* has all four parts; anything else is a path with a query.
Parse(s) ==
    LET q == IndexAny(s, {"?"})
        hier == SubSeq(s, 1, q - 1)
        query == SubSeq(s, q + 1, Len(s))
    IN  IF s # <<>> /\ s[1] = "://"
        THEN [err |-> TRUE, url |-> URL(<<>>, <<>>, <<>>, <<>>)]
        ELSE IF Len(hier) >= 2 /\ hier[2] = "://"
             THEN LET rest == SubSeq(hier, 3, Len(hier))
                      slash == IndexAny(rest, {"/"})
                  IN  [err |-> FALSE,
                       url |-> URL(<<hier[1]>>, SubSeq(rest, 1, slash - 1),
                                   SubSeq(rest, slash, Len(rest)), query)]
             ELSE [err |-> FALSE, url |-> URL(<<>>, <<>>, hier, query)]

\* URL.EscapedPath: a "?" inside the path is written "%3F".
EscapedPath(path) == [i \in 1..Len(path) |-> IF path[i] = "?" THEN "%3F" ELSE path[i]]

\* URL.String: a path that does not begin with "/" is put after a "/" when
\* there is a host.
URLString(u) ==
    (IF u.Scheme # <<>> THEN u.Scheme \o <<"://">> ELSE <<>>)
        \o u.Host
        \o (IF u.Path # <<>> /\ u.Path[1] # "/" /\ u.Host # <<>> THEN <<"/">> ELSE <<>>)
        \o EscapedPath(u.Path)
        \o (IF u.RawQuery # <<>> THEN <<"?">> \o u.RawQuery ELSE <<>>)

\* Target (proxy.go:81-89).  A hook is named by what it does: "nil" is no hook.
Target(baseUrl, prefix, pre, post) ==
    [BaseUrl |-> baseUrl, Prefix |-> prefix, PreRequest |-> pre, PostRequest |-> post]

Slash == <<"/">>

\* targetMap[key] = target
MapPut(m, key, target) ==
    [k \in DOMAIN m \cup {key} |-> IF k = key THEN target ELSE m[k]]

EmptyMap == [k \in {} |-> 0]

\* proxy.go:121-123 and 130: the loop's copy of the target gets the leading "/";
\* the map's value is the caller's element.
Register(targets, i, targetMap) ==
    LET target == targets[i]
        prefix == IF ~HasPrefix(target.Prefix, Slash) THEN Slash \o target.Prefix
                  ELSE target.Prefix
    IN  MapPut(targetMap, prefix, targets[i])

\* A mutant of BuildTargetMap: a target whose origin does not parse is left
\* out and the loop goes on.
RECURSIVE BuildTargetMapSkippingBad(_, _, _)
BuildTargetMapSkippingBad(targets, i, targetMap) ==
    IF i > Len(targets) THEN [err |-> FALSE, targets |-> targetMap]
    ELSE IF Parse(targets[i].BaseUrl).err
         THEN BuildTargetMapSkippingBad(targets, i + 1, targetMap)
    ELSE BuildTargetMapSkippingBad(targets, i + 1, Register(targets, i, targetMap))

\* proxy.go:119-131: the loop over the targets, from the i-th on.
RECURSIVE BuildTargetMap(_, _, _)
BuildTargetMap(targets, i, targetMap) ==
    IF i > Len(targets) THEN [err |-> FALSE, targets |-> targetMap]
    ELSE IF Parse(targets[i].BaseUrl).err THEN [err |-> TRUE, targets |-> EmptyMap]
    ELSE BuildTargetMap(targets, i + 1, Register(targets, i, targetMap))

\* fmt.Sprintf("0.0.0.0:%d", p.port)
ListenHost(port) == <<"0.0.0.0", ":", port>>

NoCall == [called |-> FALSE]
NoProxy == [built |-> FALSE]
NoExchange == [handled |-> FALSE]

\* proxy.go:133-147: the Proxy value NewProxy returns.
NewProxyValue(targetMap, port, cert) ==
    [built |-> TRUE,
     targets |-> targetMap,
     port |-> port,
     cert |-> cert,
     addr |-> URL(IF cert THEN <<"https">> ELSE <<"http">>, ListenHost(port), <<>>, <<>>)]

\* What NewProxy is called with.
ExampleOrigin == <<"https", "://", "example.com">>
BadOrigin == <<"://", "example.com">>
Hooks == {<<"nil", "nil">>, <<"stamp", "replace">>, <<"nil", "drop">>}
Targets ==
    {Target(BadOrigin, <<"/", "ex", "/">>, "nil", "nil"),
     Target(ExampleOrigin, <<"ex", "/">>, "nil", "nil")}
        \cup {Target(ExampleOrigin, <<"/", "ex", "/">>, h[1], h[2]) : h \in Hooks}
TargetLists == UNION {[1..n -> Targets] : n \in 0..MaxTargets}
Ports == {"8080"}

\* NewProxy(targets, opts...) (proxy.go:118-148), called with one of lists and
\* WithPort(one of ports); port "0" is also what p.port is without WithPort.
NewProxyFrom(lists, ports) ==
    /\ proxy = NoProxy
    /\ given = NoCall
    /\ \E targets \in lists, port \in ports, cert \in BOOLEAN :
        LET m == BuildTargetMap(targets, 1, EmptyMap)
        IN  /\ given' = [called |-> TRUE, targets |-> targets, err |-> m.err]
            /\ proxy' = IF m.err THEN NoProxy ELSE NewProxyValue(m.targets, port, cert)
    /\ UNCHANGED <<exchange, stats, targetOne, lvars, trip, handlers, tvars>>

NewProxy == NewProxyFrom(TargetLists, Ports)

\* ------------------------------------------------------- proxy: a request

Request(method, url, header, body) ==
    [Method |-> method, URL |-> url, Header |-> header, Body |-> body, Close |-> FALSE]

NoRequest == Request("", URL(<<>>, <<>>, <<>>, <<>>), <<>>, <<>>)

\* for _, value := range values { header.Add(name, value) }
RECURSIVE AddAll(_, _, _)
AddAll(h, name, values) ==
    IF values = <<>> THEN h ELSE AddAll(Add(h, name, Head(values)), name, Tail(values))

RECURSIVE CopyInto(_, _, _)
CopyInto(h, from, names) ==
    IF names = {} THEN h
    ELSE LET name == CHOOSE n \in names : TRUE
         IN  CopyInto(AddAll(h, name, from[name]), from, names \ {name})

\* buildRequest (proxy.go:323-353); readable tells whether io.ReadAll of the
\* inbound body succeeds.
buildRequest(originalReq, target, readable) ==
    LET targetAsUrl == Parse(target.BaseUrl)
        newURL == [originalReq.URL EXCEPT !.Scheme = targetAsUrl.url.Scheme,
                                          !.Host = targetAsUrl.url.Host,
                                          !.Path = TrimPrefix(@, target.Prefix)]
        parsed == Parse(URLString(newURL))
    IN  IF targetAsUrl.err \/ ~readable \/ parsed.err THEN [err |-> TRUE, req |-> NoRequest]
        ELSE [err |-> FALSE,
              req |-> [Request(originalReq.Method, parsed.url,
                               CopyInto(<<>>, originalReq.Header, DOMAIN originalReq.Header),
                               originalReq.Body) EXCEPT !.Close = TRUE]]

\* The hooks a target may carry.  "stamp" records the start of the request in
\* a header; "same" returns its argument, as the stat server's hook does;
\* "replace" returns a response of its own; "drop" returns nil; "stats" are
\* the stat server's hooks, which return their argument.
PreRequest(hook, r) ==
    IF hook = "stamp" THEN [r EXCEPT !.Header = Set(@, "X-Started", <<"now">>)] ELSE r

Substitute ==
    [StatusCode |-> 203,
     Header |-> [k \in {"Content-Encoding", "Content-Type"} |->
                   IF k = "Content-Type" THEN << <<"text/plain">> >> ELSE NoValues],
     Body |-> <<Text("substitute")>>,
     ContentLength |-> 1]

PostRequest(hook, resp) ==
    IF hook \in {"same", "stats"} THEN resp
    ELSE IF hook = "replace" THEN Substitute ELSE NoResponse

\* ------------------------------------------------------ proxy: the response

\* http.ResponseWriter: the header, and the status and body once written.
NewWriter == [Header |-> <<>>, StatusCode |-> 0, Body |-> <<>>]

\* http.Error(w, error, code)
Error(w, error, code) ==
    [Header |-> Set(Set(w.Header, "Content-Type", <<"text/plain; charset=utf-8">>),
                    "X-Content-Type-Options", <<"nosniff">>),
     StatusCode |-> code,
     Body |-> <<Text(error)>>]

StatusOK == 200
StatusBadGateway == 502

\* proxy.go:218-220, 277-279
addCorsHeaders(h) ==
    Set(Set(Set(h, "Access-Control-Allow-Origin", <<"*">>),
            "Access-Control-Allow-Methods", <<"GET, POST, PUT, DELETE, OPTIONS">>),
        "Access-Control-Allow-Headers", <<"Content-Type, Authorization">>)

\* copyHeaders (proxy.go:269-280)
copyHeaders(resp, w) ==
    [w EXCEPT !.Header = addCorsHeaders(CopyInto(w.Header, resp.Header, DOMAIN resp.Header))]

\* An HTML element with its href and src attributes.
NoAttr == [exists |-> FALSE, val |-> <<>>]
Attr(val) == [exists |-> TRUE, val |-> val]
Element(tag, href, src) == [tag |-> tag, href |-> href, src |-> src]

IsElement(x) == DOMAIN x = {"tag", "href", "src"}

\* document.Find("a[href], img[src], link[href], script[src]")
Selected(x) ==
    /\ IsElement(x)
    /\ \/ x.tag \in {"a", "link"} /\ x.href.exists
       \/ x.tag \in {"img", "script"} /\ x.src.exists

TrimSuffix(s, suffix) ==
    IF Len(suffix) <= Len(s) /\ SubSeq(s, Len(s) - Len(suffix) + 1, Len(s)) = suffix
    THEN SubSeq(s, 1, Len(s) - Len(suffix))
    ELSE s

\* internal.JoinUrl(first, second)
JoinUrl(first, second) ==
    TrimSuffix(first, Slash) \o Slash \o TrimPrefix(second, Slash)

\* proxy.go:301-310 for one attribute of one element: url is p.addr itself, so
\* the assignment to url.Path is an assignment to p.addr.Path.
rewriteAttr(addr, attr, target) ==
    IF ~attr.exists THEN [addr |-> addr, attr |-> attr]
    ELSE LET isDynamic == HasPrefix(attr.val, Slash)
             isOnOriginalHost == HasPrefix(attr.val, target.BaseUrl)
             url == [addr EXCEPT !.Path = JoinUrl(target.Prefix,
                                                  TrimPrefix(attr.val, target.BaseUrl))]
         IN  [addr |-> url,
              attr |-> IF isDynamic \/ isOnOriginalHost THEN Attr(URLString(url)) ELSE attr]

\* proxy.go:299-312: every selected element of the document, from the i-th on.
RECURSIVE rewriteLinks(_, _, _, _)
rewriteLinks(addr, document, i, target) ==
    IF i > Len(document) THEN [addr |-> addr, document |-> document]
    ELSE IF ~Selected(document[i]) THEN rewriteLinks(addr, document, i + 1, target)
    ELSE LET href == rewriteAttr(addr, document[i].href, target)
             src == rewriteAttr(href.addr, document[i].src, target)
         IN  rewriteLinks(src.addr,
                          [document EXCEPT ![i] = Element(@.tag, href.attr, src.attr)],
                          i + 1, target)

\* copyBody (proxy.go:282-321)
copyBody(addr, resp, target) ==
    IF ~Contains(Get(resp.Header, "Content-Type"), <<"text/html">>)
    THEN [err |-> FALSE, addr |-> addr, body |-> resp.Body]
    ELSE LET done == rewriteLinks(addr, resp.Body, 1, target)
         IN  [err |-> FALSE, addr |-> done.addr, body |-> done.document]

\* copyResponse (proxy.go:235-267): the writer and p.addr afterwards, whether
\* an error was returned, and whether the body of the response handed in was
\* closed.  The deferred resp.Body.Close() (247) is reached only past the
\* decompression, and closes what resp.Body is by then: the upstream body when
\* there was no Content-Encoding, else the buffer decompressResponse put in its
\* place (compression.go:70), whose readers do not close the upstream body.
copyResponse(addr, resp, w, target) ==
    LET w1 == copyHeaders(resp, w)
        encoding == Get(resp.Header, "Content-Encoding")
        plain == IF encoding # EmptyStr THEN decompressResponse(resp)
                 ELSE [err |-> FALSE, res |-> resp]
        copied == copyBody(addr, plain.res, target)
        packed == IF encoding # EmptyStr THEN compressBody(copied.body, encoding)
                  ELSE [err |-> FALSE, body |-> copied.body]
        closed == encoding = EmptyStr
    IN  IF plain.err THEN [err |-> TRUE, addr |-> addr, w |-> w1, closed |-> FALSE]
        ELSE IF copied.err \/ packed.err
        THEN [err |-> TRUE, addr |-> copied.addr, w |-> w1, closed |-> closed]
        ELSE [err |-> FALSE,
              addr |-> copied.addr,
              w |-> [Header |-> IF encoding # EmptyStr
                                THEN Set(w1.Header, "Content-Encoding", encoding)
                                ELSE w1.Header,
                     StatusCode |-> resp.StatusCode,
                     Body |-> packed.body],
              closed |-> closed]

\* ------------------------------------------------------ the stat server

NoTarget == Target(<<>>, <<>>, "nil", "nil")

\* newStatRecorder (stats/targetStat.go:49-54), with the pre-hook's resStarted
newStatRecorder == [requestCount |-> 0, statusCode |-> 0, resStarted |-> FALSE]

\* StatServer.PreRequest / PostRequest (stats/server.go:59-85): the hook of a
\* registered prefix, nil for any other.
StatsHook(s, targetPrefix) == IF targetPrefix \in DOMAIN s THEN "stats" ELSE "nil"

\* StatServer.RegisterTarget (stats/server.go:53-57): target is the method's
\* own copy of the caller's value, so that the hooks are set on the copy; the
\* result is the recorders and the caller's value after the call.
RegisterTarget(s, target) ==
    LET recorders == MapPut(s, target.Prefix, newStatRecorder)
        copy == [target EXCEPT !.PreRequest = StatsHook(recorders, target.Prefix),
                               !.PostRequest = StatsHook(recorders, target.Prefix)]
    IN  [stats |-> recorders, target |-> target, copy |-> copy]

\* StatRecorder.AddResponse (stats/targetStat.go:56-75)
AddResponse(rec, statusCode) ==
    [rec EXCEPT !.requestCount = @ + 1, !.statusCode = statusCode]

\* The recorders after the hooks of one exchange have run (stats/server.go:
\* 65-68 and 77-84); the hooks of a target record under its Prefix.
Recorded(s, target, pre, postArgs) ==
    LET started == IF target.PreRequest = "stats" /\ pre = 1
                   THEN [s EXCEPT ![target.Prefix].resStarted = TRUE] ELSE s
    IN  IF target.PostRequest = "stats" /\ postArgs # <<>>
        THEN [started EXCEPT ![target.Prefix] =
                 AddResponse(@, IF postArgs[1] = NoResponse THEN StatusBadGateway
                                ELSE postArgs[1].StatusCode)]
        ELSE started

\* ------------------------------------------------------ proxy: the handler

\* The Transport was not asked.
NoOutcome == [err |-> FALSE, res |-> NoResponse]

\* What is kept of one run of the handler: the inbound request and the pattern
\* it matched, what the Transport answered,
\* the request buildRequest made and the one sent, the calls of the hooks and
\* of the Transport, what the client was answered, whether the handler
\* panicked, and whether it closed the body of the response it was given.
Exchange(key, r, out, built, sent, pre, calls, failed, postArgs, w, panicked, closed) ==
    [handled |-> TRUE, key |-> key, request |-> r,
     outcome |-> IF calls = 0 THEN NoOutcome ELSE out,
     built |-> built, sent |-> sent,
     preCalls |-> pre, transportCalls |-> calls, transportFailed |-> failed,
     postArgs |-> postArgs, w |-> w, panicked |-> panicked, closed |-> closed]

\* A mutant of afterDispatch: the error is looked at before the post-hook runs.
afterDispatchErrorFirst(target, out) ==
    IF out.err THEN [resp |-> NoResponse, postArgs |-> <<>>]
    ELSE IF target.PostRequest # "nil"
         THEN [resp |-> PostRequest(target.PostRequest, out.res), postArgs |-> <<out.res>>]
         ELSE [resp |-> out.res, postArgs |-> <<>>]

\* A mutant of afterDispatch: the post-hook is called and what it returns is
\* thrown away.
afterDispatchKeepingResponse(target, out) ==
    LET resp == IF out.err THEN NoResponse ELSE out.res
    IN  [resp |-> resp,
         postArgs |-> IF target.PostRequest # "nil" THEN <<resp>> ELSE <<>>]

\* proxy.go:205-208: client.Do returns out (on an error the response is nil),
\* and the post-hook, if there is one, is given the response and replaces it.
afterDispatch(target, out) ==
    LET resp == IF out.err THEN NoResponse ELSE out.res
    IN  IF target.PostRequest # "nil"
        THEN [resp |-> PostRequest(target.PostRequest, resp), postArgs |-> <<resp>>]
        ELSE [resp |-> resp, postArgs |-> <<>>]

\* proxy.go:216-224
answerPreflight(w) ==
    [w EXCEPT !.Header = addCorsHeaders(w.Header), !.StatusCode = StatusOK]

\* proxy.go:226-231: copyResponse has returned copied; its error is answered
\* with 502 on the writer as copyResponse left it.
afterCopy(key, r, out, built, sent, pre, postArgs, copied) ==
    [addr |-> copied.addr,
     exchange |-> Exchange(key, r, out, built, sent, pre, 1, FALSE, postArgs,
                           IF copied.err
                           THEN Error(copied.w, "Error copying response", StatusBadGateway)
                           ELSE copied.w,
                           FALSE, copied.closed)]

\* forwardRequest (proxy.go:191-233) for the target registered under key: the
\* exchange, and p.addr afterwards.  out is what the Transport answers if it
\* is asked.
forwardRequest(addr, key, target, r, readable, out) ==
    LET b == buildRequest(r, target, readable)
        newReq == IF target.PreRequest # "nil" THEN PreRequest(target.PreRequest, b.req)
                  ELSE b.req
        pre == IF target.PreRequest # "nil" THEN 1 ELSE 0
        d == afterDispatch(target, out)
    IN  IF b.err
        THEN [addr |-> addr,
              exchange |-> Exchange(key, r, out, NoRequest, NoRequest, 0, 0, FALSE,
                                    <<>>,
                                    Error(NewWriter, "Error constructing new request",
                                          StatusBadGateway), FALSE, FALSE)]
        ELSE IF out.err
        THEN [addr |-> addr,
              exchange |-> Exchange(key, r, out, b.req, newReq, pre, 1, TRUE,
                                    d.postArgs,
                                    Error(NewWriter, "Error forwarding request",
                                          StatusBadGateway), FALSE, FALSE)]
        ELSE IF r.Method = "OPTIONS"
        THEN [addr |-> addr,
              exchange |-> Exchange(key, r, out, b.req, newReq, pre, 1, FALSE,
                                    d.postArgs,
                                    answerPreflight(NewWriter), FALSE, FALSE)]
        ELSE IF d.resp = NoResponse
        THEN [addr |-> addr,
              exchange |-> Exchange(key, r, out, b.req, newReq, pre, 1, FALSE,
                                    d.postArgs,
                                    NewWriter, TRUE, FALSE)]
        ELSE afterCopy(key, r, out, b.req, newReq, pre, d.postArgs,
                       copyResponse(addr, d.resp, NewWriter, target))

\* http.ServeMux: a pattern ending in "/" matches the paths under it, any other
\* pattern the path equal to it; the longest matching pattern handles.
Matches(pattern, path) ==
    IF pattern[Len(pattern)] = "/" THEN HasPrefix(path, pattern) ELSE path = pattern

Handles(patterns, pattern, path) ==
    /\ pattern \in patterns
    /\ Matches(pattern, path)
    /\ \A other \in patterns : Matches(other, path) => Len(other) <= Len(pattern)

NoPattern == <<>>

\* cleanPath of net/http, as far as repeated slashes go (the paths here have
\* no dot segments).
RECURSIVE Collapse(_)
Collapse(path) ==
    IF Len(path) < 2 THEN path
    ELSE IF path[1] = "/" /\ path[2] = "/" THEN Collapse(Tail(path))
    ELSE <<path[1]>> \o Collapse(Tail(path))

cleanPath(path) == IF path = <<>> THEN Slash ELSE Collapse(path)

\* A mutant of Handler: a request no pattern matches goes to some target.
HandlerWithFallback(patterns, path) ==
    IF patterns = {} THEN [kind |-> "notfound", pattern |-> NoPattern, location |-> <<>>]
    ELSE IF \E pattern \in patterns : Matches(pattern, path)
    THEN [kind |-> "target",
          pattern |-> CHOOSE pattern \in patterns : Handles(patterns, pattern, path),
          location |-> <<>>]
    ELSE [kind |-> "target", pattern |-> CHOOSE pattern \in patterns : TRUE,
          location |-> <<>>]

\* ServeMux.Handler for the mux of proxy.go:162-167: a path that lacks only
\* the trailing slash of a registered pattern, or that is not clean, is
\* redirected; otherwise the longest matching pattern handles, and NotFound
\* does when there is none.
Handler(patterns, path) ==
    LET clean == cleanPath(path)
    IN  IF clean \notin patterns /\ (clean \o Slash) \in patterns
        THEN [kind |-> "redirect", pattern |-> NoPattern, location |-> clean \o Slash]
        ELSE IF clean # path
        THEN [kind |-> "redirect", pattern |-> NoPattern, location |-> clean]
        ELSE IF \E pattern \in patterns : Matches(pattern, path)
        THEN [kind |-> "target",
              pattern |-> CHOOSE pattern \in patterns : Handles(patterns, pattern, path),
              location |-> <<>>]
        ELSE [kind |-> "notfound", pattern |-> NoPattern, location |-> <<>>]

\* http.NotFound and http.Redirect(w, r, location, 301)
Unrouted(route, w) ==
    IF route.kind = "notfound" THEN Error(w, "404 page not found", 404)
    ELSE [Header |-> Set(Set(w.Header, "Location", route.location),
                         "Content-Type", <<"text/html; charset=utf-8">>),
          StatusCode |-> 301,
          Body |-> <<Text("Moved Permanently")>>]

\* The inbound requests, and what the Transport may answer.
Methods == {"GET", "OPTIONS"}
Paths == {<<"/", "ex", "/">>, <<"/", "ex", "/", "page">>}
Bare == [query |-> <<>>, header |-> [k \in {"Authorization"} |-> NoValues],
         body |-> <<>>, readable |-> TRUE]
Full == [query |-> <<"q=1">>, header |-> [k \in {"Authorization"} |-> << <<"token">> >>],
         body |-> <<Text("form")>>, readable |-> TRUE]
Unreadable == [Full EXCEPT !.readable = FALSE]
Elsewhere == {<<"/", "other">>, <<"/", "ex">>, <<"/", "other", "/", "/", "x">>}
Inbound ==
    {[method |-> m, path |-> p, in |-> Bare] : m \in Methods, p \in Paths}
        \cup {[method |-> "GET", path |-> <<"/", "ex", "/", "page">>, in |-> i] :
                 i \in {Full, Unreadable}}
        \cup {[method |-> "GET", path |-> p, in |-> Bare] : p \in Elsewhere}

RootRelative == <<"/", "path">>
SameOrigin == ExampleOrigin \o <<"/", "path">>
OtherOrigin == <<"https", "://", "other.com", "/", "x">>

WithQuery == <<"/", "path", "?", "q=1">>
Lookalike == ExampleOrigin \o <<".evil", "/", "x">>

Documents ==
    <<<<Text("data")>>,
      <<Element("a", Attr(RootRelative), NoAttr)>>,
      <<Element("img", NoAttr, Attr(SameOrigin)), Element("a", Attr(OtherOrigin), NoAttr),
        Element("link", Attr(RootRelative), NoAttr)>>,
      <<Element("link", Attr(WithQuery), NoAttr), Element("script", NoAttr, Attr(Lookalike)),
        Element("p", Attr(RootRelative), NoAttr)>>>>

\* The number of bytes of a body: one for a piece of text or a codec's magic,
\* and for an element one and those of its attribute values.
RECURSIVE Size(_)
Size(body) ==
    IF body = <<>> THEN 0
    ELSE (IF IsElement(Head(body))
          THEN 1 + Len(Head(body).href.val) + Len(Head(body).src.val)
          ELSE 1) + Size(Tail(body))

\* strconv.Itoa(n), as a header value
Itoa(n) == <<ToString(n)>>

\* An upstream response that declares the length of its body.
WithContentLength(res) ==
    [res EXCEPT !.Header = Set(@, "Content-Length", Itoa(Size(res.Body)))]

\* What the Transport may answer: documents with and without links, with and
\* without Content-Encoding and Content-Length; the last is a response whose
\* body a stealth transport has decompressed (stealthTransport.go:135-141).
ProxyResponses ==
    {UpstreamResponse(200, EmptyStr, <<"text/html">>, Documents[1]),
     UpstreamResponse(200, EmptyStr, <<"text/html">>, Documents[2]),
     UpstreamResponse(200, Gzip, <<"text/html">>, Documents[3]),
     UpstreamResponse(200, EmptyStr, <<"text/html">>, Documents[4]),
     UpstreamResponse(404, EmptyStr, <<"text/plain">>, Documents[1]),
     UpstreamResponse(200, <<"zstd">>, <<"text/plain">>, Documents[1]),
     UpstreamResponse(200, <<"x-", "gzip">>, <<"text/plain">>, Documents[1]),
     WithContentLength(UpstreamResponse(200, Gzip, <<"text/html">>, Documents[2])),
     decompressResponse(WithContentLength(
         UpstreamResponse(200, Gzip, <<"text/plain">>, Documents[1]))).res}

ProxyOutcomes ==
    {[err |-> TRUE, res |-> NoResponse]} \cup {[err |-> FALSE, res |-> r] : r \in ProxyResponses}

\* What a target's handler leaves behind: the exchange, p.addr, and what the
\* stat server's hooks recorded.
Handled(target, done) ==
    /\ exchange' = done.exchange
    /\ proxy' = [proxy EXCEPT !.addr = done.addr]
    /\ stats' = Recorded(stats, target, done.exchange.preCalls, done.exchange.postArgs)

\* The server hands an inbound request to the handler the mux finds for it.
ServeHTTP ==
    /\ proxy.built
    /\ \A prefix \in DOMAIN stats : stats[prefix].requestCount < MaxRecorded
    /\ \E i \in Inbound, out \in ProxyOutcomes :
        LET r == Request(i.method, URL(<<>>, <<>>, i.path, i.in.query), i.in.header,
                         i.in.body)
            route == Handler(DOMAIN proxy.targets, i.path)
            key == route.pattern
        IN  IF route.kind = "target"
            THEN Handled(proxy.targets[key],
                         forwardRequest(proxy.addr, key, proxy.targets[key], r,
                                        i.in.readable, out))
            ELSE /\ exchange' = Exchange(NoPattern, r, out, NoRequest, NoRequest, 0, 0,
                                         FALSE, <<>>, Unrouted(route, NewWriter), FALSE,
                                         FALSE)
                 /\ UNCHANGED <<proxy, stats>>
    /\ UNCHANGED <<given, targetOne, lvars, trip, handlers, tvars>>

\* The README's program: targetOne is defined and registered with the stat
\* server.
UsageTargets ==
    {Target(ExampleOrigin, prefix, "nil", "nil") : prefix \in {<<"/", "ex", "/">>, <<"ex", "/">>}}

CallRegisterTarget ==
    /\ targetOne = NoTarget
    /\ given = NoCall
    /\ \E target \in UsageTargets :
        /\ stats' = RegisterTarget(stats, target).stats
        /\ targetOne' = RegisterTarget(stats, target).target
    /\ UNCHANGED <<given, proxy, exchange, lvars, trip, handlers, tvars>>

\* A program that sets the hooks itself:
\* targetOne.PreRequest = stats.PreRequest(targetOne.Prefix), and the same for
\* PostRequest.
WireHooks ==
    /\ targetOne # NoTarget
    /\ given = NoCall
    /\ targetOne.PreRequest = "nil"
    /\ targetOne' = [targetOne EXCEPT !.PreRequest = StatsHook(stats, targetOne.Prefix),
                                      !.PostRequest = StatsHook(stats, targetOne.Prefix)]
    /\ UNCHANGED <<given, proxy, exchange, stats, lvars, trip, handlers, tvars>>

\* proxy.NewProxy([]proxy.Target{targetOne}, ...)
NewProxyOfTargetOne ==
    /\ targetOne # NoTarget
    /\ NewProxyFrom({<<targetOne>>}, Ports)

\* ------------------------------------------- proxy: serving and shutting down

NotStarted == [pc |-> "none", addr |-> <<>>, err |-> "none"]
NoServer == [set |-> FALSE, inShutdown |-> FALSE, active |-> 0]
NoShutdown == [pc |-> "none", ctx |-> "none", err |-> "none"]
NotSeen == [called |-> FALSE]

\* The port the operating system picks for port 0.
OsPorts == {"49152"}

\* listener.Addr().String() of net.Listen("tcp", p.addr.Host)
ListenerAddr(port, os) == ListenHost(IF port = "0" THEN os ELSE port)

\* A nil dereference has ended the program.
Running == shutdown.pc # "panic"

\* go p.ListenAndServe(): the goroutine exists and has not run yet.
GoListenAndServe ==
    /\ Running
    /\ proxy.built
    /\ serving.pc = "none"
    /\ serving' = [serving EXCEPT !.pc = "called"]
    /\ UNCHANGED <<given, proxy, exchange, stats, targetOne, server, shutdown, seen, trip, handlers, tvars>>

\* proxy.go:155-159: net.Listen binds the listener, or fails.
LASListen ==
    /\ Running
    /\ serving.pc = "called"
    /\ \/ \E os \in OsPorts :
            serving' = [serving EXCEPT !.pc = "bound",
                                       !.addr = ListenerAddr(proxy.port, os)]
       \/ serving' = [serving EXCEPT !.pc = "returned", !.err = "error starting listener"]
    /\ UNCHANGED <<given, proxy, exchange, stats, targetOne, server, shutdown, seen, trip, handlers, tvars>>

\* proxy.go:160: p.addr.Host = listener.Addr().String()
LASResolve ==
    /\ Running
    /\ serving.pc = "bound"
    /\ proxy' = [proxy EXCEPT !.addr.Host = serving.addr]
    /\ serving' = [serving EXCEPT !.pc = "resolved"]
    /\ UNCHANGED <<given, exchange, stats, targetOne, server, shutdown, seen, trip, handlers, tvars>>

\* proxy.go:162-171: the mux is built and p.server is set.
LASBuild ==
    /\ Running
    /\ serving.pc = "resolved"
    /\ server' = [set |-> TRUE, inShutdown |-> FALSE, active |-> 0]
    /\ serving' = [serving EXCEPT !.pc = "built"]
    /\ UNCHANGED <<given, proxy, exchange, stats, targetOne, shutdown, seen, trip, handlers, tvars>>

\* proxy.go:173-180: p.server.Serve(listener) or ServeTLS; a server that has
\* been shut down returns http.ErrServerClosed at once.
LASServe ==
    /\ Running
    /\ serving.pc = "built"
    /\ serving' = IF server.inShutdown
                  THEN [serving EXCEPT !.pc = "returned", !.err = "ErrServerClosed"]
                  ELSE [serving EXCEPT !.pc = "serving"]
    /\ UNCHANGED <<given, proxy, exchange, stats, targetOne, server, shutdown, seen, trip, handlers, tvars>>

\* Serve returns http.ErrServerClosed once Shutdown has closed the listener,
\* and ListenAndServe returns what Serve returned.
LASReturn ==
    /\ Running
    /\ serving.pc = "serving"
    /\ server.inShutdown
    /\ serving' = [serving EXCEPT !.pc = "returned", !.err = "ErrServerClosed"]
    /\ UNCHANGED <<given, proxy, exchange, stats, targetOne, server, shutdown, seen, trip, handlers, tvars>>

\* The server accepts a request and a handler starts on it; what a handler
\* does is ServeHTTP.
Accept ==
    /\ Running
    /\ serving.pc = "serving"
    /\ ~server.inShutdown
    /\ server.active < MaxActive
    /\ server' = [server EXCEPT !.active = @ + 1]
    /\ UNCHANGED <<given, proxy, exchange, stats, targetOne, serving, shutdown, seen, trip, handlers, tvars>>

\* A handler returns.
Finish ==
    /\ Running
    /\ server.active > 0
    /\ server' = [server EXCEPT !.active = @ - 1]
    /\ UNCHANGED <<given, proxy, exchange, stats, targetOne, serving, shutdown, seen, trip, handlers, tvars>>

\* Addr (proxy.go:187-189), called by the program; at tells where
\* ListenAndServe stood.
CallAddr ==
    /\ Running
    /\ proxy.built
    /\ seen' = [called |-> TRUE, value |-> URLString(proxy.addr), at |-> serving.pc]
    /\ UNCHANGED <<given, proxy, exchange, stats, targetOne, serving, server, shutdown, trip, handlers, tvars>>

\* A mutant of Shutdown: the server is closed without waiting (server.Close).
ShutdownWithoutWaiting(srv, ctx) ==
    IF ~srv.set THEN [server |-> srv, shutdown |-> [NoShutdown EXCEPT !.pc = "panic"]]
    ELSE [server |-> [srv EXCEPT !.inShutdown = TRUE],
          shutdown |-> [pc |-> "returned", ctx |-> ctx, err |-> "nil"]]

\* Shutdown (proxy.go:183-185): p.server.Shutdown(ctx) closes the listener and
\* waits; p.server is nil until ListenAndServe has set it.
Shutdown(srv, ctx) ==
    IF ~srv.set THEN [server |-> srv, shutdown |-> [NoShutdown EXCEPT !.pc = "panic"]]
    ELSE [server |-> [srv EXCEPT !.inShutdown = TRUE],
          shutdown |-> [pc |-> "waiting", ctx |-> ctx, err |-> "none"]]

Contexts == {"background", "deadline"}

CallShutdown ==
    /\ Running
    /\ proxy.built
    /\ shutdown.pc = "none"
    /\ \E ctx \in Contexts :
        /\ server' = Shutdown(server, ctx).server
        /\ shutdown' = Shutdown(server, ctx).shutdown
    /\ UNCHANGED <<given, proxy, exchange, stats, targetOne, serving, seen, trip, handlers, tvars>>

\* http.Server.Shutdown returns nil once no handler is running.
ShutdownReturn ==
    /\ shutdown.pc = "waiting"
    /\ server.active = 0
    /\ shutdown' = [shutdown EXCEPT !.pc = "returned", !.err = "nil"]
    /\ UNCHANGED <<given, proxy, exchange, stats, targetOne, serving, server, seen, trip, handlers, tvars>>

\* http.Server.Shutdown returns the context's error when the deadline passes
\* while handlers still run.
ShutdownExpire ==
    /\ shutdown.pc = "waiting"
    /\ shutdown.ctx = "deadline"
    /\ server.active > 0
    /\ shutdown' = [shutdown EXCEPT !.pc = "returned", !.err = "DeadlineExceeded"]
    /\ UNCHANGED <<given, proxy, exchange, stats, targetOne, serving, server, seen, trip, handlers, tvars>>

\* The programs that serve: one target, with or without WithPort.
ServeLists == {<<Target(ExampleOrigin, <<"/", "ex", "/">>, "nil", "nil")>>}

NewProxyToServe == NewProxyFrom(ServeLists, {"0", "8080"})

\* ------------------------------------------------------- codec round trips

NoTrip == [stage |-> "none"]

\* The bytes a body is made of here; one of them reads like a codec's magic.
Bytes == {Text("a"), Text("b"), Magic(Gzip)}
ByteSequences == UNION {[1..n -> Bytes] : n \in 0..MaxBody}
Codecs == {Gzip, Deflate, Brotli}

\* compressBody(x, codec)
Compress ==
    /\ trip.stage = "plain"
    /\ LET c == compressBody(trip.body, trip.codec)
       IN  trip' = IF c.err THEN [trip EXCEPT !.stage = "failed"]
                   ELSE [trip EXCEPT !.stage = "compressed", !.body = c.body]
    /\ UNCHANGED <<given, proxy, exchange, stats, targetOne, lvars, handlers, tvars>>

\* decompressResponse of a response that carries the compressed body under the
\* codec's Content-Encoding
Decompress ==
    /\ trip.stage = "compressed"
    /\ LET res == [UpstreamResponse(200, trip.codec, <<"text/plain">>, <<>>)
                      EXCEPT !.Body = trip.body, !.ContentLength = Len(trip.body)]
           d == decompressResponse(res)
       IN  trip' = IF d.err THEN [trip EXCEPT !.stage = "failed"]
                   ELSE [trip EXCEPT !.stage = "restored", !.body = d.res.Body]
    /\ UNCHANGED <<given, proxy, exchange, stats, targetOne, lvars, handlers, tvars>>

\* -------------------------------------------- concurrent link rewriting
\* net/http runs every request's handler in a goroutine of its own; the
\* handlers of one proxy share p.addr.  A handler's rewriting of one attribute
\* is taken in the steps of proxy.go:301-309.

MaxHandlers == 2

HandlerIds == 1..MaxHandlers

NotRewriting == [pc |-> "idle"]
NoHandlers == [h \in HandlerIds |-> NotRewriting]

SecondOrigin == <<"https", "://", "two.example">>
TwoTargets ==
    <<Target(ExampleOrigin, <<"/", "ex", "/">>, "nil", "nil"),
      Target(SecondOrigin, <<"/", "two", "/">>, "nil", "nil")>>

AttrValues == {RootRelative, <<"/", "img">>, OtherOrigin}

NewProxyOfTwo == NewProxyFrom({TwoTargets}, Ports)

\* proxy.go:299-303: the handler of the target registered under key comes to an
\* attribute of a selected element of its document.
RewriteBegin(h) ==
    /\ proxy.built
    /\ handlers[h].pc = "idle"
    /\ \E key \in DOMAIN proxy.targets, val \in AttrValues :
        handlers' = [handlers EXCEPT ![h] =
                        [pc |-> "assign", target |-> proxy.targets[key], val |-> val,
                         attr |-> val]]
    /\ UNCHANGED <<given, proxy, exchange, stats, targetOne, lvars, trip, tvars>>

\* proxy.go:305-306: url is p.addr, and its Path is assigned.
RewriteAssign(h) ==
    /\ handlers[h].pc = "assign"
    /\ LET target == handlers[h].target
       IN  proxy' = [proxy EXCEPT !.addr.Path =
                        JoinUrl(target.Prefix, TrimPrefix(handlers[h].val, target.BaseUrl))]
    /\ handlers' = [handlers EXCEPT ![h].pc = "set"]
    /\ UNCHANGED <<given, exchange, stats, targetOne, lvars, trip, tvars>>

\* proxy.go:307-309: url.String() reads p.addr as it is now.
RewriteSetAttr(h) ==
    /\ handlers[h].pc = "set"
    /\ LET isDynamic == HasPrefix(handlers[h].val, Slash)
           isOnOriginalHost == HasPrefix(handlers[h].val, handlers[h].target.BaseUrl)
       IN  handlers' = [handlers EXCEPT
                           ![h].pc = "done",
                           ![h].attr = IF isDynamic \/ isOnOriginalHost
                                       THEN URLString(proxy.addr) ELSE @]
    /\ UNCHANGED <<given, proxy, exchange, stats, targetOne, lvars, trip, tvars>>

ProxyIdle ==
    /\ handlers = NoHandlers
    /\ given = NoCall
    /\ proxy = NoProxy
    /\ exchange = NoExchange
    /\ stats = EmptyMap
    /\ targetOne = NoTarget
    /\ serving = NotStarted
    /\ server = NoServer
    /\ shutdown = NoShutdown
    /\ seen = NotSeen

CodecIdle == trip = NoTrip

\* ------------------------------------------------------- transport: set-up

\* NewStealthTransport(opts...) (stealthTransport.go:70-82) for the options
\* drawn, and the requests its callers hold.
CommonUserAgents == <<<<"Mozilla/5.0 Chrome/58">>, <<"Mozilla/5.0 Firefox/54">>>>
SocksAddr == <<"127.0.0.1:9090">>

PresetValues == {<<EmptyStr>>, << <<"custom">> >>}

NoHeaders == [k \in RequestHeaderNames |-> NoValues]

\* Requests on which the caller has set at most n headers itself.
Requests(n) ==
    {h \in [RequestHeaderNames -> {NoValues} \cup PresetValues] :
        Cardinality({k \in RequestHeaderNames : h[k] # NoValues}) <= n}

NewStealthTransport(delays, proxies, compressions, agents, requests, cs, outcomes, n) ==
    /\ userAgents \in agents
    /\ \E d \in delays : minDelay = d[1] /\ maxDelay = d[2]
    /\ socks5Proxy \in proxies
    /\ compression \in compressions
    /\ lastRequest = 0 - LongAgo
    /\ socks5Initialized = FALSE
    /\ Dial = "nil"
    /\ callers = cs
    /\ pc = [c \in cs |-> "idle"]
    /\ req \in [cs -> requests]
    /\ req0 = req
    /\ hadCompression = [c \in cs |-> FALSE]
    /\ wake = [c \in cs |-> 0]
    /\ raw = [c \in cs |-> NoResponse]
    /\ result = [c \in cs |-> NoResult]
    /\ ncalls = [c \in cs |-> 0]
    /\ now = 0
    /\ dispatched = <<>>
    /\ installs = 0
    /\ upstream = outcomes
    /\ budget = n

Delays == {<<0, 0>>, <<0, 2>>, <<1, 1>>, <<1, 3>>, <<2, 3>>}

\* One caller, calling RoundTrip again and again: either the pacing and the
\* SOCKS5 options vary, or the request's headers and the compression option.
InitSeq ==
    /\ ProxyIdle
    /\ CodecIdle
    /\ \/ NewStealthTransport(Delays, {EmptyStr, SocksAddr}, {FALSE},
                              {CommonUserAgents}, {NoHeaders}, {1}, PlainOutcomes, MaxCalls)
       \/ NewStealthTransport({<<0, 0>>}, {EmptyStr}, BOOLEAN,
                              {<<>>, CommonUserAgents}, Requests(MaxPreset), {1},
                              TransportOutcomes, MaxCalls)

NextSeq ==
    \/ Tick
    \/ \E c \in callers : RTCall(c)
    \/ \E c \in callers : RTSocksCheck(c)
    \/ \E c \in callers : RTSocksConstruct(c)
    \/ \E c \in callers : RTSocksInstall(c)
    \/ \E c \in callers : RTSocksSetFlag(c)
    \/ \E c \in callers : RTDelay(c)
    \/ \E c \in callers : RTWake(c)
    \/ \E c \in callers : RTDispatch(c)
    \/ \E c \in callers : RTResponse(c)

SpecSeq == InitSeq /\ [][NextSeq]_vars

\* Two callers sharing the transport.
InitConc ==
    /\ ProxyIdle
    /\ CodecIdle
    /\ NewStealthTransport({<<0, 0>>, <<1, 3>>}, {EmptyStr, SocksAddr}, {FALSE},
                           {CommonUserAgents}, {NoHeaders}, {1, 2}, PlainOutcomes,
                           MaxSharedCalls)

SpecConc == InitConc /\ [][NextSeq]_vars

\* ------------------------------------------------ claims: stealth transport

\* The dispatches begun so far are at least d ticks apart, each from the one
\* before it.
DispatchesApart(d) ==
    \A i \in 2..Len(dispatched) : dispatched[i].at - dispatched[i - 1].at >= d

\* A caller has been through RoundTrip's header defaulting at least once.
Entered(c) == pc[c] # "idle" \/ ncalls[c] > 0

\* A caller's last RoundTrip returned a response.
Returned(c) == pc[c] = "idle" /\ result[c].kind = "ok"

\* C3: with a SOCKS5 address configured, every dispatch the underlying
\* transport has begun, by either of two callers sharing the transport and in
\* any interleaving of their steps, found the SOCKS5 dialer installed as the
\* transport's Dial.
C3_DispatchOnlyThroughSocks ==
    socks5Proxy # EmptyStr => \A i \in 1..Len(dispatched) : dispatched[i].dial = "socks5"

\* Both callers found the flag unset, both installed a dialer, and both have
\* dispatched.
C3_Witness ==
    /\ socks5Proxy # EmptyStr
    /\ installs = 2
    /\ Len(dispatched) = 2

\* C4: with minDelay = maxDelay = 1 (one second), RoundTrip does not panic, so
\* that sequential calls complete their dispatch, and the dispatches begin at
\* least one second apart.
C4_EqualDelaysDispatch ==
    (minDelay = 1 /\ maxDelay = 1) =>
        /\ \A c \in callers : pc[c] # "panic"
        /\ DispatchesApart(minDelay)

\* C5: with 0 < minDelay < maxDelay and one caller calling RoundTrip again and
\* again, every dispatch begins at least minDelay after the one before it, and
\* lastRequest is the time the latest dispatch began, slept or not.
C5_SequentialPacing ==
    (0 < minDelay /\ minDelay < maxDelay) =>
        /\ DispatchesApart(minDelay)
        /\ dispatched # <<>> => lastRequest = dispatched[Len(dispatched)].at

\* The second dispatch began exactly minDelay after the first: the caller slept
\* for what was left of the delay.
C5_Witness ==
    /\ 0 < minDelay /\ minDelay < maxDelay
    /\ Len(dispatched) = 2
    /\ dispatched[2].at - dispatched[1].at = minDelay
    /\ lastRequest = dispatched[2].at

Init ==
    /\ ProxyIdle
    /\ CodecIdle
    /\ NewStealthTransport({<<0, 0>>}, {EmptyStr}, {FALSE}, {<<>>}, {NoHeaders}, {},
                           PlainOutcomes, 0)

Next == NewProxy \/ ServeHTTP

Spec == Init /\ [][Next]_vars

\* The README's program with the stat server.
NextStats == CallRegisterTarget \/ WireHooks \/ NewProxyOfTargetOne \/ ServeHTTP

SpecStats == Init /\ [][NextStats]_vars

\* A program that builds a proxy, serves with it and shuts it down.
NextServe ==
    \/ NewProxyToServe
    \/ GoListenAndServe
    \/ LASListen
    \/ LASResolve
    \/ LASBuild
    \/ LASServe
    \/ LASReturn
    \/ Accept
    \/ Finish
    \/ CallAddr
    \/ CallShutdown
    \/ ShutdownReturn
    \/ ShutdownExpire

SpecServe == Init /\ [][NextServe]_vars

\* Handlers of two targets rewriting links at the same time.
NextRewrite ==
    \/ NewProxyOfTwo
    \/ \E h \in HandlerIds : RewriteBegin(h)
    \/ \E h \in HandlerIds : RewriteAssign(h)
    \/ \E h \in HandlerIds : RewriteSetAttr(h)

SpecRewrite == Init /\ [][NextRewrite]_vars

\* A body is compressed and the result decompressed.
InitCodec ==
    /\ ProxyIdle
    /\ NewStealthTransport({<<0, 0>>}, {EmptyStr}, {FALSE}, {<<>>}, {NoHeaders}, {},
                           PlainOutcomes, 0)
    /\ trip \in {[stage |-> "plain", codec |-> codec, x |-> x, body |-> x] :
                    codec \in Codecs, x \in ByteSequences}

NextCodec == Compress \/ Decompress

SpecCodec == InitCodec /\ [][NextCodec]_vars

\* ----------------------------------------------------------- proxy: claims

Values(h, name) == IF name \in DOMAIN h THEN h[name] ELSE NoValues

\* The two headers hold the same values under every name.
SameHeader(a, b) == \A name \in DOMAIN a \cup DOMAIN b : Values(a, name) = Values(b, name)

Preflight ==
    exchange.handled /\ exchange.key # NoPattern /\ exchange.request.Method = "OPTIONS"

\* The handler got as far as handing a request to the Transport.
Built == exchange.handled /\ exchange.built # NoRequest

\* C1: for an inbound OPTIONS request to a registered prefix, the handler has
\* made no call to the Transport when it responds.
C1_PreflightWithoutDispatch ==
    Preflight => exchange.transportCalls = 0

\* C2: an inbound OPTIONS request to a registered prefix is answered with
\* status 200 and Access-Control-Allow-Origin: *, whatever came of the
\* upstream dispatch.
C2_PreflightAnswer ==
    Preflight =>
        /\ exchange.w.StatusCode = StatusOK
        /\ Get(exchange.w.Header, "Access-Control-Allow-Origin") = <<"*">>

\* C8: once NewProxy has succeeded, every key of the registry begins with "/",
\* and the Target stored under the key carries that key as its prefix.
C8_RegistryNormalized ==
    proxy.built =>
        \A key \in DOMAIN proxy.targets :
            /\ HasPrefix(key, Slash)
            /\ proxy.targets[key].Prefix = key

\* C9: the upstream request built for an inbound request has the target's
\* scheme and host, the inbound path with the matched prefix stripped (given
\* the "/" every absolute path begins with), the inbound query, method,
\* headers and body, and is marked to close its connection.
C9_UpstreamRequest ==
    Built =>
        LET r == exchange.request
            origin == Parse(proxy.targets[exchange.key].BaseUrl).url
            stripped == TrimPrefix(r.URL.Path, exchange.key)
        IN  /\ exchange.built.URL.Scheme = origin.Scheme
            /\ exchange.built.URL.Host = origin.Host
            /\ exchange.built.URL.Path \in {stripped, Slash \o stripped}
            /\ exchange.built.URL.RawQuery = r.URL.RawQuery
            /\ exchange.built.Method = r.Method
            /\ SameHeader(exchange.built.Header, r.Header)
            /\ exchange.built.Body = r.Body
            /\ exchange.built.Close

\* C10: when the dispatch fails, the Transport has been called once, the
\* post-hook, if the target has one, has been called once with a nil response,
\* and the client is answered 502 with the error text, whatever the hook
\* returned.
C10_FailedDispatch ==
    (exchange.handled /\ exchange.transportFailed) =>
        /\ exchange.transportCalls = 1
        /\ exchange.postArgs = IF proxy.targets[exchange.key].PostRequest # "nil"
                               THEN <<NoResponse>> ELSE <<>>
        /\ exchange.w.StatusCode = StatusBadGateway
        /\ exchange.w = Error(NewWriter, "Error forwarding request", StatusBadGateway)

\* The dispatch failed for a target whose post-hook returns a response of its
\* own; the hook was given nil and the client got the 502.
C10_Witness ==
    /\ exchange.handled
    /\ exchange.transportFailed
    /\ proxy.targets[exchange.key].PostRequest = "replace"
    /\ PostRequest("replace", NoResponse) = Substitute
    /\ exchange.postArgs = <<NoResponse>>
    /\ exchange.w.StatusCode = StatusBadGateway

\* The handler got a response from the Transport for a request that is not a
\* preflight, and the target has a post-hook.
HookedAnswer ==
    /\ exchange.handled
    /\ exchange.transportCalls = 1
    /\ ~exchange.transportFailed
    /\ exchange.request.Method # "OPTIONS"
    /\ proxy.targets[exchange.key].PostRequest # "nil"

\* C11: on a successful dispatch for a target with a post-hook, the status,
\* the headers and the body written to the client are those of the response
\* the post-hook returned, not those of the response the Transport returned
\* (a hook that returns nil leaves nothing to write: the handler panics).
C11_PostHookResponseForwarded ==
    HookedAnswer =>
        LET used == PostRequest(proxy.targets[exchange.key].PostRequest,
                                exchange.outcome.res)
        IN  IF used = NoResponse THEN exchange.panicked /\ exchange.w = NewWriter
            ELSE /\ exchange.w.StatusCode = used.StatusCode
                 /\ \A name \in DOMAIN used.Header :
                        used.Header[name] # NoValues =>
                            Values(exchange.w.Header, name) = used.Header[name]
                 /\ exchange.w.Body = used.Body

\* The Transport answered 404 with "data"; the hook returned its own 203, and
\* that is what the client got.
C11_Witness ==
    /\ HookedAnswer
    /\ exchange.outcome.res.StatusCode = 404
    /\ exchange.outcome.res.Body = <<Text("data")>>
    /\ exchange.w.StatusCode = Substitute.StatusCode
    /\ exchange.w.Body = Substitute.Body

\* The response the handler forwards: the post-hook's if there is a hook.
Forwarded ==
    IF proxy.targets[exchange.key].PostRequest # "nil"
    THEN PostRequest(proxy.targets[exchange.key].PostRequest, exchange.outcome.res)
    ELSE exchange.outcome.res

\* A body as it reads once its Content-Encoding is undone.
Decoded(header, body) ==
    IF Get(header, "Content-Encoding") = EmptyStr THEN body
    ELSE CodecRead(compressionFromString(Get(header, "Content-Encoding")), body)

\* The client was sent a text/html response of the target.
HtmlForwarded ==
    /\ exchange.handled
    /\ exchange.transportCalls = 1
    /\ ~exchange.transportFailed
    /\ exchange.request.Method # "OPTIONS"
    /\ ~exchange.panicked
    /\ exchange.w.StatusCode = Forwarded.StatusCode
    /\ Contains(Get(Forwarded.Header, "Content-Type"), <<"text/html">>)

UpstreamDocument == Decoded(Forwarded.Header, Forwarded.Body)
ClientDocument == Decoded(exchange.w.Header, exchange.w.Body)

\* The link attributes of the i-th element the rewriter looks at.
LinkAttrs(i) ==
    {attr \in {"href", "src"} : Selected(UpstreamDocument[i]) /\ UpstreamDocument[i][attr].exists}

\* '/x', or 'O/x' for the origin O.
PointsAtTarget(val, origin) ==
    \/ HasPrefix(val, Slash)
    \/ /\ HasPrefix(val, origin)
       /\ TrimPrefix(val, origin) = <<>> \/ HasPrefix(TrimPrefix(val, origin), Slash)

\* The address A followed by prefix and x, joined by single slashes.
UnderProxy(address, prefix, x) ==
    address.Scheme \o <<"://">> \o address.Host \o JoinUrl(prefix, x)

\* C12: in a text/html response, a link value that is root-relative or begins
\* with the target's origin is replaced by the proxy's address joined with the
\* prefix and the path by single slashes, so that both forms of one path get
\* the same value.
C12_LinksRewritten ==
    HtmlForwarded =>
        \A i \in 1..Len(UpstreamDocument) : \A attr \in LinkAttrs(i) :
            LET val == UpstreamDocument[i][attr].val
                origin == proxy.targets[exchange.key].BaseUrl
            IN  PointsAtTarget(val, origin) =>
                    ClientDocument[i][attr].val =
                        UnderProxy(proxy.addr, exchange.key, TrimPrefix(val, origin))

\* An absolute URL: it has a scheme.
IsAbsolute(val) == ~Parse(val).err /\ Parse(val).url.Scheme # <<>>

SameSchemeAndHost(val, origin) ==
    /\ Parse(val).url.Scheme = Parse(origin).url.Scheme
    /\ Parse(val).url.Host = Parse(origin).url.Host

\* C13: in a text/html response, a link value that is an absolute URL whose
\* scheme and host are not the target's origin reaches the client as it was.
C13_OtherOriginsUntouched ==
    HtmlForwarded =>
        \A i \in 1..Len(UpstreamDocument) : \A attr \in LinkAttrs(i) :
            LET val == UpstreamDocument[i][attr].val
                origin == proxy.targets[exchange.key].BaseUrl
            IN  (IsAbsolute(val) /\ ~SameSchemeAndHost(val, origin)) =>
                    ClientDocument[i][attr].val = val

\* The handler dispatched a request for a target registered with the stat
\* server.
ForwardedForRegistered ==
    /\ exchange.handled
    /\ exchange.transportCalls = 1
    /\ proxy.targets[exchange.key].Prefix \in DOMAIN stats

\* C14: after RegisterTarget(t) and NewProxy with t, a forwarded request has
\* had the stat server's pre-hook called before the dispatch and its post-hook
\* after it, and is counted by the target's recorder.
C14_StatsHooksInvoked ==
    ForwardedForRegistered =>
        /\ exchange.preCalls = 1
        /\ Len(exchange.postArgs) = 1
        /\ stats[proxy.targets[exchange.key].Prefix].resStarted
        /\ stats[proxy.targets[exchange.key].Prefix].requestCount >= 1

\* The address a proxy built for port 0 has until ListenAndServe resolves it.
Unresolved == URLString([proxy.addr EXCEPT !.Host = ListenHost("0")])

\* C15: a program that has started ListenAndServe in another goroutine and
\* then calls Addr is not given the unresolved address of port 0.
C15_AddrResolved ==
    (seen.called /\ seen.at # "none" /\ proxy.port = "0") => seen.value # Unresolved

\* Shutdown was called on a proxy whose server was set.
ShutDown == shutdown.pc \in {"waiting", "returned"}

\* C16: after Shutdown on a serving proxy, ListenAndServe returns
\* http.ErrServerClosed, and Shutdown has returned only with no handler
\* running or with the error of a context whose deadline has passed.
C16_GracefulShutdown ==
    /\ (ShutDown /\ serving.pc = "returned") => serving.err = "ErrServerClosed"
    /\ shutdown.pc = "returned" =>
        \/ shutdown.err = "nil" /\ server.active = 0
        \/ shutdown.err = "DeadlineExceeded" /\ shutdown.ctx = "deadline"

\* Shutdown with a deadline was called while a handler ran; the deadline
\* passed first, and ListenAndServe returned the sentinel.
C16_Witness ==
    /\ shutdown.pc = "returned"
    /\ shutdown.err = "DeadlineExceeded"
    /\ server.active > 0
    /\ serving.pc = "returned"
    /\ serving.err = "ErrServerClosed"

BadOriginGiven ==
    /\ given.called
    /\ \E i \in 1..Len(given.targets) : Parse(given.targets[i].BaseUrl).err

\* C18: if the origin of any target fails to parse, NewProxy returns an error
\* and no proxy: there is no registry, also not of the other targets, and
\* nothing that could bind a listener.
C18_BadOriginFailsConstruction ==
    BadOriginGiven =>
        /\ given.err
        /\ proxy = NoProxy
        /\ serving = NotStarted
        /\ server = NoServer

\* The second of two targets had the origin that does not parse.
C18_Witness ==
    /\ given.called
    /\ Len(given.targets) = 2
    /\ ~Parse(given.targets[1].BaseUrl).err
    /\ Parse(given.targets[2].BaseUrl).err
    /\ given.err
    /\ proxy = NoProxy

\* The request's path lies under no registered prefix.
UnderNoPrefix ==
    /\ exchange.handled
    /\ \A pattern \in DOMAIN proxy.targets : ~Matches(pattern, exchange.request.URL.Path)

NothingInvoked ==
    /\ exchange.preCalls = 0
    /\ exchange.postArgs = <<>>
    /\ exchange.transportCalls = 0

\* C19: a request whose path lies under no registered prefix is answered 404,
\* and no hook is called and nothing is dispatched for it.
C19_UnroutedNotFound ==
    UnderNoPrefix => exchange.w.StatusCode = 404 /\ NothingInvoked

\* The path is as the mux keeps it (no repeated slash) and is not a registered
\* prefix less its trailing slash.
Canonical ==
    /\ cleanPath(exchange.request.URL.Path) = exchange.request.URL.Path
    /\ (exchange.request.URL.Path \o Slash) \notin DOMAIN proxy.targets

\* C19 as amended: for a request whose path lies under no registered prefix no
\* hook is called and nothing is dispatched, and it is answered 404 when its
\* path is canonical.
C19_UnroutedNotDispatched ==
    UnderNoPrefix =>
        /\ NothingInvoked
        /\ exchange.key = NoPattern
        /\ Canonical => exchange.w.StatusCode = 404

\* GET /other with /ex/ registered for a target with hooks: 404.
C19_Witness ==
    /\ UnderNoPrefix
    /\ DOMAIN proxy.targets # {}
    /\ \E pattern \in DOMAIN proxy.targets : proxy.targets[pattern].PostRequest # "nil"
    /\ exchange.request.URL.Path = <<"/", "other">>
    /\ exchange.w.StatusCode = 404
    /\ NothingInvoked

\* C20: on one transport, once a SOCKS5 dialer has been constructed and
\* installed, no other call of RoundTrip, sequential or concurrent, constructs
\* or installs one again: at most one dialer is ever installed.
C20_SocksInitializedOnce ==
    installs <= 1

\* C21: with 0 < minDelay < maxDelay and several callers inside RoundTrip on
\* one shared transport at once, any two dispatches still begin at least
\* minDelay apart.
C21_ConcurrentPacing ==
    (Cardinality(callers) > 1 /\ 0 < minDelay /\ minDelay < maxDelay) =>
        DispatchesApart(minDelay)

\* The calls so far all failed to build the SOCKS5 dialer.
ConstructionFailedSoFar(c) ==
    socks5Proxy # EmptyStr /\ ncalls[c] > 0 /\ installs = 0

\* C22: when the SOCKS5 dialer cannot be built, RoundTrip returns the error
\* without dispatching, with the initialized flag still false, the dialer and
\* lastRequest as they were; and the caller's next RoundTrip goes from the test
\* of the flag to the construction again.
C22_FailedConstructionRetried ==
    [][\A c \in callers :
         /\ (pc[c] = "construct" /\ pc'[c] = "idle") =>
               /\ result'[c].kind = "socks5 error"
               /\ result'[c].res = NoResponse
               /\ dispatched' = dispatched
               /\ ~socks5Initialized'
               /\ Dial' = Dial
               /\ lastRequest' = lastRequest
         /\ (ConstructionFailedSoFar(c) /\ pc[c] = "socks" /\ pc'[c] # pc[c]) =>
               pc'[c] = "construct"]_vars

\* The caller's first RoundTrip failed to build the dialer, nothing was
\* dispatched, and its second RoundTrip is building the dialer again.
C22_Witness ==
    /\ ConstructionFailedSoFar(1)
    /\ pc[1] = "construct"
    /\ dispatched = <<>>
    /\ ~socks5Initialized
    /\ lastRequest = 0 - LongAgo

\* The handler was given an upstream response whose Content-Encoding the
\* decompression step accepted.
DecompressedForClient ==
    /\ exchange.handled
    /\ exchange.transportCalls = 1
    /\ ~exchange.transportFailed
    /\ exchange.request.Method # "OPTIONS"
    /\ ~exchange.panicked
    /\ Get(Forwarded.Header, "Content-Encoding") # EmptyStr
    /\ ~decompressResponse(Forwarded).err

\* C23: when the decompression step accepts the upstream Content-Encoding
\* value, the recompression with that value succeeds with the same codec: the
\* client is sent the upstream status, the original Content-Encoding value and
\* a body that the codec chosen for decompression reads.
C23_RecompressionAcceptsSameEncodings ==
    DecompressedForClient =>
        /\ exchange.w.StatusCode = Forwarded.StatusCode
        /\ Get(exchange.w.Header, "Content-Encoding") = Get(Forwarded.Header, "Content-Encoding")
        /\ CodecReadable(compressionFromString(Get(Forwarded.Header, "Content-Encoding")),
                         exchange.w.Body)

\* Proxy.Addr (proxy.go:187-189) as a caller would be given it now.
Addr == URLString(proxy.addr)

\* C24: handling a request leaves the proxy's listen address as it was: Addr
\* returns the same value after the handler as before it, text/html responses
\* included.
C24_HandlingKeepsAddr ==
    [][proxy.built => Addr' = Addr]_vars

\* The link a handler's target and attribute value call for.
OwnLink(h) ==
    URLString([proxy.addr EXCEPT !.Path =
                  JoinUrl(handlers[h].target.Prefix,
                          TrimPrefix(handlers[h].val, handlers[h].target.BaseUrl))])

\* The handler has rewritten its attribute.
Rewrote(h) ==
    /\ handlers[h].pc = "done"
    /\ handlers[h].attr # handlers[h].val

\* C25: with handlers of two targets rewriting text/html responses at the same
\* time, a link rewritten for target T is the proxy's address with T's prefix
\* and the link's own path, not a prefix or a path of the other handler.
C25_ConcurrentRewritesKeepOwnLinks ==
    \A h \in HandlerIds : Rewrote(h) => handlers[h].attr = OwnLink(h)

\* C26: Shutdown may be called at any time after NewProxy, also before
\* ListenAndServe was called or before it has set p.server: it never uses an
\* unset server and never crashes.
C26_ShutdownAtAnyTime ==
    shutdown.pc # "panic"

\* A post-hook returned nil for a dispatch that had succeeded.
PostHookDroppedResponse ==
    /\ exchange.handled
    /\ exchange.transportCalls = 1
    /\ ~exchange.transportFailed
    /\ Len(exchange.postArgs) = 1
    /\ Forwarded = NoResponse

\* C27: when a post-hook returns nil for a dispatch that succeeded, the
\* handler does not use the nil response: it does not crash and answers the
\* client with an error status (a preflight, which is answered without a look
\* at the response, aside).
C27_NilPostHookResponseRejected ==
    (PostHookDroppedResponse /\ exchange.request.Method # "OPTIONS") =>
        /\ ~exchange.panicked
        /\ exchange.w.StatusCode >= 500

\* The handler answered the client and sent it a Content-Length.
LengthDeclared ==
    /\ exchange.handled
    /\ ~exchange.panicked
    /\ Get(exchange.w.Header, "Content-Length") # EmptyStr

\* C28: a Content-Length the proxy sends to the client is the length of the
\* body it writes, also when links were rewritten, when the body was
\* decompressed and recompressed, and when the stealth transport had
\* decompressed the upstream body.
C28_ContentLengthIsBodyLength ==
    LengthDeclared =>
        Get(exchange.w.Header, "Content-Length") = Itoa(Size(exchange.w.Body))

\* The request the caller holds has an Accept-Encoding of the caller's own:
\* one that is not the transport's.
OwnAcceptEncoding(c) ==
    req0[c][AcceptEncoding] \notin {NoValues, <<AdvertisedEncodings>>}

\* C29: a caller that sets no Accept-Encoding itself and hands the same
\* request to a compression-enabled transport again and again is returned, on
\* every call and not only the first, a response without Content-Encoding.
C29_EveryDispatchDecompressed ==
    \A c \in callers :
        (compression /\ ~OwnAcceptEncoding(c) /\ Returned(c)) =>
            Get(result[c].res.Header, "Content-Encoding") = EmptyStr

\* The handler was given a response by the dispatch (by the post-hook, if
\* there is one).
ResponseObtained ==
    /\ exchange.handled
    /\ exchange.transportCalls = 1
    /\ ~exchange.transportFailed
    /\ Forwarded # NoResponse

\* C30: the body of every upstream response the handler obtains has been
\* closed when the handler returns, on every path: the preflight's answer, a
\* failed decompression, a failed copy or recompression, and success.
C30_UpstreamBodyClosed ==
    ResponseObtained => exchange.closed

====
